---------------------------- MODULE Spec2Model ----------------------------
(***************************************************************************)
(* Sequential provider fallback of the image-to-3D viewer.                 *)
(*                                                                         *)
(* The orchestrator is the React component ModelLoader: its state          *)
(* (currentApiIndex, isProcessing, apiKeys, modelGenerationStatus), the    *)
(* context state of ModelViewerProvider (scene, model, modelSource,        *)
(* isLoading, activeApi), the effect processNextApi, the per-provider      *)
(* hooks (useMeshyAiModel, useRodinModel, useCsmModel, useHuggingFaceModel,*)
(* useTextureLoader) and the timers and loads they leave in flight.        *)
(*                                                                         *)
(* Scheduling: one step of the model is one callback run by the event loop *)
(* (a timer, a settled promise, a loader callback, a click, the passive    *)
(* effect processNextApi).  The state updates of one callback are batched, *)
(* and the render they cause, with the cleanup and restart of the hook     *)
(* effects, belongs to the same step.  The effect processNextApi of a      *)
(* render runs before any later callback (procPending).                    *)
(***************************************************************************)
EXTENDS Integers, Sequences, FiniteSets, TLC

(* ------------------------------ bounds -------------------------------- *)
MaxImages == 2      \* images supplied to the viewer
MaxIndex == 6       \* cap on currentApiIndex (the code has none)
MaxStale == 1       \* unmounted hook runs still in flight
MaxTimers == 2      \* pending 30 s timers of processNextApi
MaxLoads == 1       \* pending texture loads of the 'local' case
MaxTex == 4         \* pending texture loads of useTextureLoader

(* --------------------------- program constants ------------------------ *)
apiPriority == <<"meshy", "rodin", "csm", "huggingface", "local">>
NumApis == Len(apiPriority)
RemoteApis == {"meshy", "rodin", "csm", "huggingface"}
KeyServices == {"meshy", "csm", "rodin"}
Indexes == 0 .. (NumApis - 1)

\* apiPriority[currentApiIndex], undefined past the end of the array
ApiAt(i) == IF i < NumApis THEN apiPriority[i + 1] ELSE "none"
IndexOf(api) == CHOOSE i \in Indexes : ApiAt(i) = api

NoRun == [api |-> "none", phase |-> "none"]
\* no GLTF scene is being followed, no generator exists
NoAsset == [passes |-> -1]
NoGen == [runs |-> -1]
NoPlane == [pc |-> "none"]
NoManager == [pc |-> "none"]
\* no adapter call is being followed
NoCall == [adapter |-> "none", pc |-> "idle", apiKey |-> FALSE, imageSize |-> 0,
           blob |-> FALSE, modelIndex |-> 0, attempts |-> 0, polls |-> 0,
           waitTime |-> 0, requests |-> 0, saw401 |-> FALSE, after401 |-> 0,
           threw |-> FALSE, byteLength |-> -1, result |-> "pending"]
Statuses == {"pending", "running", "skipped", "succeeded", "failed", "timedOut",
             "abandoned"}

VARIABLES
  imageUrl,               \* prop imageUrl: 0 is null, n the n-th image
  scene,                  \* context: the scene exists
  currentApiIndex,        \* ModelLoader state
  isProcessing,           \* ModelLoader state
  apiKeys,                \* ModelLoader state: services with a truthy key
  modelGenerationStatus,  \* ModelLoader state: "" or the source of the success
  model,                  \* context: "none" or the source of the model in the scene
  modelSource,            \* context
  isLoading,              \* context
  activeApi,              \* context
  procPending,            \* the effect processNextApi has to run (its deps changed)
  live,                   \* the mounted run of the active provider hook
  stale,                  \* per provider: unmounted runs with a request in flight
  timers,                 \* pending timers of processNextApi, oldest first: apiToTry
  localLoads,             \* pending TextureLoader.load of the 'local' case
  texLoads,               \* pending TextureLoader.load of useTextureLoader
  failureToast,           \* "All 3D generation methods failed" was shown
  attempts,               \* history: status of each provider in this session
  cancelled,              \* history: handleCancel ran in this session
  lastDiscarded,          \* history: provider whose result the last step discarded
  staleUrls,              \* per provider: unmounted runs whose GLTF load is in
                          \* flight (they hold a blob URL); part of stale
  revokes,                \* history: revokeObjectURL calls of the GLTF callback
                          \* that ran in the last step
  lastDownload,           \* history: byteLength of the model the adapter call that
                          \* returned to its mounted hook in the last step downloaded
  call,                   \* one call of a provider adapter, step by step
  asset,                  \* a loaded GLTF scene and the transform the hooks give it
  gen,                    \* an Enhanced3DGenerator instance and what it has produced
  plane,                  \* the mesh createImagePlane builds from a texture
  manager                 \* the ApiKeyManager instance and the localStorage it saves to

vars == <<imageUrl, scene, currentApiIndex, isProcessing, apiKeys,
          modelGenerationStatus, model, modelSource, isLoading, activeApi,
          procPending, live, stale, staleUrls, timers, localLoads, texLoads,
          failureToast, attempts, cancelled, lastDiscarded, lastDownload, revokes,
          call, asset, gen, plane, manager>>

ctxVars == <<model, modelSource, isLoading, activeApi, modelGenerationStatus>>
\* the adapter, the normalization of the hooks and the local generator are
\* studied on their own below
sideVars == <<call, asset, gen, plane, manager>>
mainVars == <<imageUrl, scene, currentApiIndex, isProcessing, apiKeys,
              modelGenerationStatus, model, modelSource, isLoading, activeApi,
              procPending, live, stale, staleUrls, timers, localLoads, texLoads,
              failureToast, attempts, cancelled, lastDiscarded, lastDownload,
              revokes>>
flightVars == <<timers, localLoads>>

(* ------------------------------ helpers ------------------------------- *)

\* ModelLoader.tsx:129-131: the provider needs a key and none is configured
MissingKeyHuggingFace(api, keys) ==
  \/ api \in KeyServices /\ api \notin keys
  \/ api = "huggingface"

MissingKey(api, keys) == api \in KeyServices /\ api \notin keys

\* setCurrentApiIndex(prev => prev + 1)
NextIndex(prev) == prev + 1

\* the provider whose hook effect starts generate...Model in a render with
\* these values: useMeshyAiModel returns early without image, key or
\* isActive, the other provider hooks without image or isActive
HookStarts(img, idx, keys) ==
  LET api == ApiAt(idx)
  IN  IF img # 0 /\ api \in RemoteApis /\ (api = "meshy" => "meshy" \in keys)
      THEN api ELSE "none"

\* useTextureLoader starts TextureLoader.load in a render with these values
TextureHookStarts(img, idx) == img # 0 /\ ApiAt(idx) = "local"

\* the branch processNextApi takes with the values of the render it closes over
ProcessKind(img, idx, proc, scn, keys) ==
  IF img = 0 \/ proc \/ ~scn THEN "return"
  ELSE IF idx >= NumApis THEN "exhausted"
  ELSE IF MissingKey(ApiAt(idx), keys) THEN "skip"
  ELSE "start"

\* the 30 s timer callback acts: !modelGenerated && apiToTry !== 'local'
\* (modelGenerated is false in every case but 'local')
TimerAdvancesNever(api) == FALSE
TimerAdvances(api) == api # "local"

\* a hook callback goes on past its isMounted check
ResultDeliveredAlways(isMounted) == TRUE

ResultDelivered(isMounted) == isMounted

\* the source the 'local' case and useTextureLoader hand to onModelLoaded
LocalSourceOther == "huggingface"

LocalSource == "local"

\* the calls cancelAllRequests aborts: the controllers held by
\* abortControllersRef, a map that no adapter call is ever added to
Aborted(calls) == {}

\* byte lengths a downloaded model can have, around the floor of the adapters
Downloads == {4999, 5000}
\* the adapter returned without the bytes of a download
NoDownload == -1

\* "Validate model data", meshyAiService.ts:176-183 (rodinService.ts:268,
\* csmService.ts:217 and 262, huggingFaceService.ts:101): a model of fewer
\* than 5000 bytes is not returned
MinModelBytes == 5000
ValidModelAny(byteLength) == TRUE
ValidModel(byteLength) == byteLength >= MinModelBytes

\* URL.revokeObjectURL(modelUrl) in the callbacks of GLTFLoader.load,
\* useMeshyAiModel.ts:53-123: the load callback revokes the URL, unmounted
\* (line 55) or not (line 108); the error callback returns at line 116 if
\* the run is unmounted and revokes at line 121 otherwise
NoGltf == -1
Revokes(isMounted, ok) == IF ok \/ isMounted THEN 1 ELSE 0

\* what the adapter returns for what it downloaded: data (TRUE) or null
ModelData(byteLength) == byteLength # NoDownload /\ ValidModel(byteLength)

Bump(f, k) == [f EXCEPT ![k] = @ + 1]
Drop(f, k) == [f EXCEPT ![k] = @ - 1]
StaleTotal(st) == st["meshy"] + st["rodin"] + st["csm"] + st["huggingface"]

\* providers with a generate call, or the local reconstruction, in progress
InFlight == {p \in RemoteApis : stale[p] > 0 \/ live.api = p}
RunningApis == InFlight \cup (IF localLoads > 0 THEN {"local"} ELSE {})

TypeOK ==
  /\ imageUrl \in 0 .. MaxImages
  /\ scene \in BOOLEAN
  /\ currentApiIndex \in 0 .. MaxIndex
  /\ isProcessing \in BOOLEAN
  /\ apiKeys \subseteq KeyServices
  /\ modelGenerationStatus \in RemoteApis \cup {"local", ""}
  /\ model \in RemoteApis \cup {"local", "none"}
  /\ modelSource \in RemoteApis \cup {"local", ""}
  /\ isLoading \in BOOLEAN
  /\ activeApi \in RemoteApis \cup {"local", "none"}
  /\ procPending \in BOOLEAN
  /\ live \in [api : RemoteApis \cup {"none"}, phase : {"none", "generating", "loading"}]
  /\ stale \in [RemoteApis -> 0 .. MaxStale]
  /\ StaleTotal(stale) <= MaxStale
  /\ staleUrls \in [RemoteApis -> 0 .. MaxStale]
  /\ \A p \in RemoteApis : staleUrls[p] <= stale[p]
  /\ revokes \in {NoGltf, 0, 1}
  /\ timers \in Seq(RemoteApis \cup {"local"}) /\ Len(timers) <= MaxTimers
  /\ localLoads \in 0 .. MaxLoads
  /\ texLoads \in 0 .. MaxTex
  /\ failureToast \in BOOLEAN
  /\ attempts \in [Indexes -> Statuses]
  /\ cancelled \in BOOLEAN
  /\ lastDiscarded \in RemoteApis \cup {"none"}
  /\ lastDownload \in Downloads \cup {NoDownload}

\* the keys are read from apiKeyManager (localStorage) when ModelLoader mounts
MainInit ==
  /\ imageUrl = 0
  /\ scene = FALSE
  /\ currentApiIndex = 0
  /\ isProcessing = FALSE
  /\ apiKeys \in SUBSET KeyServices
  /\ modelGenerationStatus = ""
  /\ model = "none"
  /\ modelSource = ""
  /\ isLoading = FALSE
  /\ activeApi = "none"
  /\ procPending = FALSE
  /\ live = NoRun
  /\ stale = [p \in RemoteApis |-> 0]
  /\ staleUrls = [p \in RemoteApis |-> 0]
  /\ revokes = NoGltf
  /\ timers = <<>>
  /\ localLoads = 0
  /\ texLoads = 0
  /\ failureToast = FALSE
  /\ attempts = [i \in Indexes |-> "pending"]
  /\ cancelled = FALSE
  /\ lastDiscarded = "none"
  /\ lastDownload = NoDownload

Init == MainInit /\ call = NoCall /\ asset = NoAsset /\ gen = NoGen /\ plane = NoPlane /\ manager = NoManager

(* ------------------------- render and hook effects -------------------- *)

\* A render of ModelLoader.  The callbacks handed to the hooks are new
\* functions in every render, so every hook effect is cleaned up (its run's
\* isMounted becomes false, its requests go on) and run again.  base holds
\* the runs and texture loads the step leaves behind.
Cur == [live |-> live, stale |-> stale, urls |-> staleUrls, tex |-> texLoads]

Render(img, idx, keys, base) ==
  /\ base.live # NoRun => StaleTotal(base.stale) < MaxStale
  /\ TextureHookStarts(img, idx) => base.tex < MaxTex
  /\ live' = IF HookStarts(img, idx, keys) # "none"
             THEN [api |-> HookStarts(img, idx, keys), phase |-> "generating"]
             ELSE NoRun
  /\ stale' = IF base.live # NoRun THEN Bump(base.stale, base.live.api) ELSE base.stale
  /\ staleUrls' = IF base.live.phase = "loading" THEN Bump(base.urls, base.live.api)
                  ELSE base.urls
  /\ texLoads' = IF TextureHookStarts(img, idx) THEN base.tex + 1 ELSE base.tex

\* no render: the runs stay as the step leaves them
Keep(base) ==
  /\ live' = base.live
  /\ stale' = base.stale
  /\ staleUrls' = base.urls
  /\ texLoads' = base.tex

\* room for what processNextApi arms when it runs next at index idx
Room(idx, tmr, loads, tex) ==
  /\ idx <= MaxIndex
  /\ idx < NumApis => Len(tmr) < MaxTimers
  /\ idx = NumApis - 1 => loads < MaxLoads /\ tex + 2 <= MaxTex

\* history: the attempt of provider i ends with status st
Settle(att, i, st) ==
  IF i \in Indexes /\ att[i] \in {"pending", "running"}
  THEN [att EXCEPT ![i] = st] ELSE att

\* history: the index moves on from the provider at i for a reason that is
\* not a result or the timer of its own attempt
Abandon(att, i) ==
  IF i \in Indexes /\ att[i] = "running" THEN [att EXCEPT ![i] = "abandoned"] ELSE att

\* onModelLoaded(model, source), ModelLoader.tsx:236-256; every caller's
\* closure holds a scene
OnModelLoaded(source) ==
  /\ model' = source
  /\ modelSource' = source
  /\ isLoading' = FALSE
  /\ modelGenerationStatus' = source
  /\ activeApi' = "none"

(* ------------------------------ actions ------------------------------- *)

\* the mount effect of SceneSetup creates the scene: setScene
SceneReady ==
  /\ ~procPending /\ ~scene
  /\ scene' = TRUE
  /\ Render(imageUrl, currentApiIndex, apiKeys, Cur)
  /\ procPending' = TRUE
  /\ lastDiscarded' = "none"
  /\ lastDownload' = NoDownload
  /\ revokes' = NoGltf
  /\ UNCHANGED <<imageUrl, currentApiIndex, isProcessing, apiKeys, sideVars, ctxVars, flightVars,
                 failureToast, attempts, cancelled>>

\* the 2 s interval of ModelLoader, ModelLoader.tsx:46-65: setApiKeys with a
\* new object, so ModelLoader renders again
UpdateKeys ==
  /\ ~procPending
  /\ Render(imageUrl, currentApiIndex, apiKeys, Cur)
  /\ lastDiscarded' = "none"
  /\ lastDownload' = NoDownload
  /\ revokes' = NoGltf
  /\ UNCHANGED <<imageUrl, scene, currentApiIndex, isProcessing, apiKeys, sideVars, ctxVars,
                 flightVars, procPending, failureToast, attempts, cancelled>>

\* the effect processNextApi, ModelLoader.tsx:103-233
ProcessReturn ==
  /\ procPending
  /\ ProcessKind(imageUrl, currentApiIndex, isProcessing, scene, apiKeys) = "return"
  /\ procPending' = FALSE
  /\ lastDiscarded' = "none"
  /\ lastDownload' = NoDownload
  /\ revokes' = NoGltf
  /\ UNCHANGED <<imageUrl, scene, currentApiIndex, isProcessing, apiKeys, sideVars, ctxVars,
                 flightVars, live, stale, staleUrls, texLoads, failureToast, attempts,
                 cancelled>>

ProcessExhausted ==
  /\ procPending
  /\ ProcessKind(imageUrl, currentApiIndex, isProcessing, scene, apiKeys) = "exhausted"
  /\ procPending' = FALSE
  /\ isLoading' = FALSE
  /\ failureToast' = (failureToast \/ modelGenerationStatus = "")
  /\ IF isLoading
     THEN Render(imageUrl, currentApiIndex, apiKeys, Cur)
     ELSE Keep(Cur)
  /\ lastDiscarded' = "none"
  /\ lastDownload' = NoDownload
  /\ revokes' = NoGltf
  /\ UNCHANGED <<imageUrl, scene, currentApiIndex, isProcessing, apiKeys, sideVars, model,
                 modelSource, activeApi, modelGenerationStatus, flightVars, attempts,
                 cancelled>>

ProcessSkip ==
  /\ procPending
  /\ ProcessKind(imageUrl, currentApiIndex, isProcessing, scene, apiKeys) = "skip"
  /\ activeApi' = ApiAt(currentApiIndex)
  /\ currentApiIndex' = NextIndex(currentApiIndex)
  /\ isProcessing' = FALSE
  /\ Render(imageUrl, currentApiIndex', apiKeys, Cur)
  /\ procPending' = TRUE
  /\ attempts' = [attempts EXCEPT ![currentApiIndex] = "skipped"]
  /\ lastDiscarded' = "none"
  /\ lastDownload' = NoDownload
  /\ revokes' = NoGltf
  /\ UNCHANGED <<imageUrl, scene, apiKeys, sideVars, model, modelSource, isLoading,
                 modelGenerationStatus, flightVars, failureToast, cancelled>>

\* the run of the effect that the render with isProcessing = true causes
\* returns at line 105
ProcessStart ==
  /\ procPending
  /\ ProcessKind(imageUrl, currentApiIndex, isProcessing, scene, apiKeys) = "start"
  /\ Len(timers) < MaxTimers
  /\ activeApi' = ApiAt(currentApiIndex)
  /\ isProcessing' = TRUE
  /\ timers' = Append(timers, ApiAt(currentApiIndex))
  /\ IF ApiAt(currentApiIndex) = "local"
     THEN localLoads < MaxLoads /\ localLoads' = localLoads + 1
     ELSE localLoads' = localLoads
  /\ Render(imageUrl, currentApiIndex, apiKeys, Cur)
  /\ procPending' = FALSE
  /\ attempts' = IF attempts[currentApiIndex] = "succeeded" THEN attempts
                 ELSE [attempts EXCEPT ![currentApiIndex] = "running"]
  /\ lastDiscarded' = "none"
  /\ lastDownload' = NoDownload
  /\ revokes' = NoGltf
  /\ UNCHANGED <<imageUrl, scene, currentApiIndex, apiKeys, sideVars, model, modelSource,
                 isLoading, modelGenerationStatus, failureToast, cancelled>>

ProcessNextApi == ProcessReturn \/ ProcessExhausted \/ ProcessSkip \/ ProcessStart

\* a new image is uploaded (Index.handleImageUpload).  The render with the
\* new prop runs, in this order, the reset effect (ModelLoader.tsx:68-100),
\* processNextApi with the index and isProcessing of the old session, and
\* the hook effects with the old index; the batched updates cause a second
\* render, which unmounts the run the first one started.  The viewer is
\* mounted with the page and SceneSetup creates the scene in its mount
\* effect (SceneSetup.tsx:30-38), before any image can be uploaded.
NewImage ==
  /\ ~procPending
  /\ scene
  /\ imageUrl < MaxImages
  /\ LET img == imageUrl + 1
         kind == ProcessKind(img, currentApiIndex, isProcessing, scene, apiKeys)
         api == ApiAt(currentApiIndex)
         first == HookStarts(img, currentApiIndex, apiKeys)
         idx2 == IF kind = "skip" THEN NextIndex(0) ELSE 0
         stale1 == IF live # NoRun THEN Bump(stale, live.api) ELSE stale
         stale2 == IF first # "none" THEN Bump(stale1, first) ELSE stale1
         tex1 == IF TextureHookStarts(img, currentApiIndex) THEN texLoads + 1 ELSE texLoads
         tmr == IF kind = "start" THEN Append(timers, api) ELSE timers
         loads == IF kind = "start" /\ api = "local" THEN localLoads + 1 ELSE localLoads
         fresh == [i \in Indexes |-> "pending"]
     IN  /\ StaleTotal(stale2) <= MaxStale
         /\ tex1 <= MaxTex /\ Len(tmr) <= MaxTimers /\ loads <= MaxLoads
         /\ kind # "start" => Room(idx2, tmr, loads, tex1)
         /\ imageUrl' = img
         /\ currentApiIndex' = idx2
         /\ isProcessing' = (kind = "start")
         /\ modelGenerationStatus' = ""
         /\ model' = IF scene THEN "none" ELSE model
         /\ isLoading' = (kind # "exhausted")
         /\ activeApi' = IF kind \in {"skip", "start"} THEN api ELSE "none"
         /\ failureToast' = (kind = "exhausted" /\ modelGenerationStatus = "")
         /\ timers' = tmr
         /\ localLoads' = loads
         /\ live' = IF HookStarts(img, idx2, apiKeys) # "none"
                    THEN [api |-> HookStarts(img, idx2, apiKeys), phase |-> "generating"]
                    ELSE NoRun
         /\ stale' = stale2
         /\ staleUrls' = IF live.phase = "loading" THEN Bump(staleUrls, live.api)
                         ELSE staleUrls
         /\ texLoads' = tex1
         /\ procPending' = (kind # "start" /\ (idx2 # currentApiIndex \/ isProcessing))
         /\ attempts' = IF kind = "skip" THEN [fresh EXCEPT ![currentApiIndex] = "skipped"]
                        ELSE IF kind = "start" THEN [fresh EXCEPT ![currentApiIndex] = "running"]
                        ELSE fresh
  /\ cancelled' = FALSE
  /\ lastDiscarded' = "none"
  /\ lastDownload' = NoDownload
  /\ revokes' = NoGltf
  /\ UNCHANGED <<scene, apiKeys, sideVars, modelSource>>

\* the callback of the oldest setTimeout of processNextApi,
\* ModelLoader.tsx:216-222; the timers have the same delay, so they fire in
\* the order they were armed in
TimerFire ==
  /\ timers # <<>>
  /\ timers' = Tail(timers)
  /\ IF TimerAdvances(Head(timers))
     THEN /\ ~procPending
          /\ Room(NextIndex(currentApiIndex), timers', localLoads, texLoads)
          /\ currentApiIndex' = NextIndex(currentApiIndex)
          /\ isProcessing' = FALSE
          /\ Render(imageUrl, currentApiIndex', apiKeys, Cur)
          /\ procPending' = TRUE
          /\ attempts' = IF Head(timers) = ApiAt(currentApiIndex)
                         THEN Settle(attempts, currentApiIndex, "timedOut")
                         ELSE Abandon(attempts, currentApiIndex)
     ELSE /\ Keep(Cur)
          /\ UNCHANGED <<currentApiIndex, isProcessing, procPending, attempts>>
  /\ lastDiscarded' = "none"
  /\ lastDownload' = NoDownload
  /\ revokes' = NoGltf
  /\ UNCHANGED <<imageUrl, scene, apiKeys, sideVars, ctxVars, localLoads, failureToast, cancelled>>

\* the onError callback a provider hook was given in the render its run of
\* provider p started in (ModelLoader.tsx:280-285): the guard
\* apiPriority[currentApiIndex] === p holds for the index of that render
OnError(p, base) ==
  /\ Room(NextIndex(currentApiIndex), timers, localLoads, texLoads)
  /\ currentApiIndex' = NextIndex(currentApiIndex)
  /\ isProcessing' = FALSE
  /\ Render(imageUrl, currentApiIndex', apiKeys, base)
  /\ procPending' = TRUE
  /\ attempts' = IF p = ApiAt(currentApiIndex)
                 THEN Settle(attempts, currentApiIndex, "failed")
                 ELSE Abandon(attempts, currentApiIndex)
  /\ lastDiscarded' = "none"
  /\ UNCHANGED ctxVars

\* generate...Model of a run of the hook of provider p settles,
\* useMeshyAiModel.ts:35-51: the run returns if it is unmounted; with null
\* (or a rejected promise) it calls onError; with data it creates the blob
\* URL and starts GLTFLoader.load.  byteLength is what the adapter
\* downloaded (NoDownload if it came to no download).
GenerateSettles(p, isMounted, byteLength) ==
  /\ IF isMounted
     THEN ~procPending /\ live = [api |-> p, phase |-> "generating"]
     ELSE stale[p] > staleUrls[p]
  /\ LET base == IF isMounted THEN [Cur EXCEPT !.live = NoRun]
                 ELSE [Cur EXCEPT !.stale = Drop(stale, p)]
     IN  IF ~ResultDelivered(isMounted)
         THEN /\ Keep(base)
              /\ lastDiscarded' = p
              /\ UNCHANGED <<currentApiIndex, isProcessing, procPending, attempts, ctxVars>>
         ELSE IF ModelData(byteLength)
         THEN /\ IF isMounted
                 THEN Keep([base EXCEPT !.live = [api |-> p, phase |-> "loading"]])
                 ELSE Keep(Cur)
              /\ lastDiscarded' = "none"
              /\ UNCHANGED <<currentApiIndex, isProcessing, procPending, attempts, ctxVars>>
         ELSE OnError(p, base)
  /\ lastDownload' = IF isMounted THEN byteLength ELSE NoDownload
  /\ revokes' = NoGltf
  /\ UNCHANGED <<imageUrl, scene, apiKeys, sideVars, flightVars, failureToast, cancelled>>

\* GLTFLoader.load of a run settles, useMeshyAiModel.ts:53-123: the callbacks
\* return if the run is unmounted, else they call the onModelLoaded or the
\* onError callback of ModelLoader.tsx:274-285
GltfSettles(p, isMounted, ok) ==
  /\ IF isMounted
     THEN ~procPending /\ live = [api |-> p, phase |-> "loading"]
     ELSE staleUrls[p] > 0
  /\ revokes' = Revokes(isMounted, ok)
  /\ LET base == IF isMounted THEN [Cur EXCEPT !.live = NoRun]
                 ELSE [Cur EXCEPT !.stale = Drop(stale, p), !.urls = Drop(staleUrls, p)]
     IN  IF ~ResultDelivered(isMounted)
         THEN /\ Keep(base)
              /\ lastDiscarded' = p
              /\ UNCHANGED <<currentApiIndex, isProcessing, procPending, attempts, ctxVars>>
         ELSE IF ok
         THEN /\ isProcessing => Room(currentApiIndex, timers, localLoads, texLoads)
              /\ OnModelLoaded(p)
              /\ isProcessing' = FALSE
              /\ UNCHANGED currentApiIndex
              /\ Render(imageUrl, currentApiIndex, apiKeys, base)
              /\ procPending' = isProcessing
              /\ attempts' = [attempts EXCEPT ![IndexOf(p)] = "succeeded"]
              /\ lastDiscarded' = "none"
         ELSE OnError(p, base)
  /\ lastDownload' = NoDownload
  /\ UNCHANGED <<imageUrl, scene, apiKeys, sideVars, flightVars, failureToast, cancelled>>

\* TextureLoader.load of the 'local' case of processNextApi settles,
\* ModelLoader.tsx:169-211: the generator builds the model ("ok"), or it
\* throws, or the texture fails to load ("error")
LocalLoadSettles(outcome) ==
  /\ ~procPending
  /\ localLoads > 0
  /\ localLoads' = localLoads - 1
  /\ IF outcome = "ok"
     THEN /\ isProcessing => Room(currentApiIndex, timers, localLoads', texLoads)
          /\ OnModelLoaded(LocalSource)
          /\ isProcessing' = FALSE
          /\ UNCHANGED currentApiIndex
          /\ procPending' = isProcessing
          /\ attempts' = [attempts EXCEPT ![IndexOf("local")] = "succeeded"]
     ELSE /\ Room(NextIndex(currentApiIndex), timers, localLoads', texLoads)
          /\ currentApiIndex' = NextIndex(currentApiIndex)
          /\ isProcessing' = FALSE
          /\ procPending' = TRUE
          /\ attempts' = LET att == Settle(attempts, IndexOf("local"), "failed")
                         IN  IF ApiAt(currentApiIndex) = "local" THEN att
                             ELSE Abandon(att, currentApiIndex)
          /\ UNCHANGED ctxVars
  /\ Render(imageUrl, currentApiIndex', apiKeys, Cur)
  /\ lastDiscarded' = "none"
  /\ lastDownload' = NoDownload
  /\ revokes' = NoGltf
  /\ UNCHANGED <<imageUrl, scene, apiKeys, sideVars, timers, failureToast, cancelled>>

\* TextureLoader.load of useTextureLoader settles, ModelLoader.tsx:344-370;
\* its callbacks have no isMounted check.  On a loaded texture
\* createImagePlane is called with the three callbacks of ModelLoader in the
\* places of setModel, setIsModelReady and setIsLoading: it calls all three
\* when it succeeds ("ok", createImagePlane.ts:86-88) and the third alone
\* when it throws; the third is also the callback of a failed load ("error").
TextureSettles(outcome) ==
  /\ ~procPending
  /\ texLoads > 0
  /\ Room(NextIndex(currentApiIndex), timers, localLoads, texLoads - 1)
  /\ currentApiIndex' = NextIndex(currentApiIndex)
  /\ isProcessing' = FALSE
  /\ procPending' = TRUE
  /\ IF outcome = "ok"
     THEN OnModelLoaded(LocalSource)
     ELSE UNCHANGED ctxVars
  /\ attempts' = LET att == IF outcome = "ok"
                            THEN [attempts EXCEPT ![IndexOf("local")] = "succeeded"]
                            ELSE Settle(attempts, IndexOf("local"), "failed")
                 IN  IF ApiAt(currentApiIndex) = "local" THEN att
                     ELSE Abandon(att, currentApiIndex)
  /\ Render(imageUrl, currentApiIndex', apiKeys, [Cur EXCEPT !.tex = texLoads - 1])
  /\ lastDiscarded' = "none"
  /\ lastDownload' = NoDownload
  /\ revokes' = NoGltf
  /\ UNCHANGED <<imageUrl, scene, apiKeys, sideVars, flightVars, failureToast, cancelled>>

\* ViewerUI.handleCancel, ViewerUI.tsx:117-121: cancelAllRequests, then
\* cleanupScene.  The button is shown while isLoading.
HandleCancel ==
  /\ ~procPending
  /\ isLoading
  /\ activeApi' = "none"
  /\ model' = "none"
  /\ cancelled' = TRUE
  /\ lastDiscarded' = "none"
  /\ LET gone == Aborted(InFlight)
         base == [Cur EXCEPT !.live = IF live.api \in gone THEN NoRun ELSE live,
                             !.stale = [p \in RemoteApis |->
                                          IF p \in gone THEN 0 ELSE stale[p]],
                             !.urls = [p \in RemoteApis |->
                                         IF p \in gone THEN 0 ELSE staleUrls[p]]]
     IN  IF activeApi # "none" \/ model # "none"
         THEN Render(imageUrl, currentApiIndex, apiKeys, base)
         ELSE Keep(base)
  /\ lastDownload' = NoDownload
  /\ revokes' = NoGltf
  /\ UNCHANGED <<imageUrl, scene, currentApiIndex, isProcessing, apiKeys, sideVars, modelSource,
                 isLoading, modelGenerationStatus, procPending, flightVars,
                 failureToast, attempts>>

Outcomes == {"ok", "throws", "error"}

Next ==
  \/ SceneReady
  \/ NewImage
  \/ UpdateKeys
  \/ ProcessNextApi
  \/ TimerFire
  \/ \E p \in RemoteApis, m \in BOOLEAN, b \in Downloads \cup {NoDownload} :
        GenerateSettles(p, m, b)
  \/ \E p \in RemoteApis, m \in BOOLEAN, ok \in BOOLEAN : GltfSettles(p, m, ok)
  \/ \E o \in Outcomes : LocalLoadSettles(o)
  \/ \E o \in Outcomes : TextureSettles(o)
  \/ HandleCancel

Spec == Init /\ [][Next]_vars

(* ------------------- fallback to local reconstruction ----------------- *)

\* The image can be loaded and the reconstruction does not throw: the
\* texture loads of the session succeed.
LiveNext ==
  \/ SceneReady
  \/ NewImage
  \/ UpdateKeys
  \/ ProcessNextApi
  \/ TimerFire
  \/ \E p \in RemoteApis, m \in BOOLEAN, b \in Downloads \cup {NoDownload} :
        GenerateSettles(p, m, b)
  \/ \E p \in RemoteApis, m \in BOOLEAN, ok \in BOOLEAN : GltfSettles(p, m, ok)
  \/ LocalLoadSettles("ok")
  \/ TextureSettles("ok")
  \/ HandleCancel

\* Effects run after their render, timers fire, loads settle.  A load
\* callback is held back only while the effect of the last render has not
\* run, which is why its fairness is strong.
LiveSpec ==
  /\ Init /\ [][LiveNext]_vars
  /\ WF_vars(ProcessNextApi)
  /\ WF_vars(TimerFire)
  /\ SF_vars(TextureSettles("ok"))
  /\ SF_vars(LocalLoadSettles("ok"))

(* ------------------------------ properties ---------------------------- *)

\* C1: every provider the index has moved past was skipped for a missing
\* key, or its own attempt was started and failed or timed out (or, the
\* subject of C3, succeeded): no provider is passed over while its attempt
\* is still running.
C1_NoProviderPassedOver ==
  \A i \in Indexes :
    i < currentApiIndex => attempts[i] \in {"skipped", "failed", "timedOut", "succeeded"}

\* C2: in the first session (no request of an earlier session can be left)
\* at most one provider has a generate call or the local reconstruction in
\* progress.
C2_AtMostOneRunning ==
  imageUrl = 1 => Cardinality(RunningApis) <= 1

\* C3: once a model is installed for the current image, currentApiIndex
\* does not change and processNextApi starts no attempt until the image
\* changes.
C3_TerminalAfterSuccess ==
  [][(modelGenerationStatus # "" /\ imageUrl' = imageUrl)
       => (currentApiIndex' = currentApiIndex /\ (isProcessing' => isProcessing))]_vars

\* C4: when the index reaches the local provider (every remote provider was
\* skipped, failed or timed out), a model of source "local" is eventually
\* installed, unless a new image replaces the session first.
C4_LocalFallback ==
  \A k \in 1 .. (MaxImages + 1) :
    (imageUrl = k /\ currentApiIndex = NumApis - 1)
      ~> ((model = "local" /\ modelSource = "local") \/ imageUrl # k)

C4_Witness ==
  /\ \A i \in Indexes : i < NumApis - 1 => attempts[i] \in {"skipped", "failed", "timedOut"}
  /\ attempts[NumApis - 1] = "succeeded"
  /\ model = "local" /\ modelSource = "local"

\* C5: when a model is installed for the session, modelSource is the
\* provider that delivered it and every provider before it in apiPriority
\* was skipped or had an attempt that failed or timed out.
C5_SourceAndEarlierProviders ==
  modelGenerationStatus # "" =>
    /\ modelSource = modelGenerationStatus
    /\ \A i \in Indexes :
         i < IndexOf(modelGenerationStatus)
           => attempts[i] \in {"skipped", "failed", "timedOut"}

\* C6: after handleCancel, and until a new image, currentApiIndex does not
\* change, processNextApi starts no attempt and no model is installed.
C6_NothingAfterCancel ==
  [][(cancelled /\ cancelled')
       => /\ currentApiIndex' = currentApiIndex
          /\ isProcessing' => isProcessing
          /\ model' = model \/ model' = "none"]_vars

\* C7: when handleCancel has run, no generate call of a provider hook is
\* left in progress.
C7_CancelAborts ==
  [][(~cancelled /\ cancelled') => (live' = NoRun /\ StaleTotal(stale') = 0)]_vars

\* C8: when a request of a run of provider p settles after the index has
\* moved past p, the model, modelSource and currentApiIndex stay as they
\* are.
C8_LateResultDiscarded ==
  [][(\E p \in RemoteApis : stale'[p] < stale[p] /\ IndexOf(p) < currentApiIndex)
       => /\ model' = model
          /\ modelSource' = modelSource
          /\ currentApiIndex' = currentApiIndex]_vars

C8_Witness ==
  /\ lastDiscarded # "none"
  /\ IndexOf(lastDiscarded) < currentApiIndex
  /\ live.api # "none"

C10_ExhaustedOnlyAfterLocalFailed ==
  (currentApiIndex >= NumApis \/ failureToast) => attempts[NumApis - 1] = "failed"


ImageSizes == {999, 1000}

\* "Validate image data", meshyAiService.ts:42-49 (rodinService.ts:145-152,
\* csmService.ts:132-139, huggingFaceService.ts:46-50)
MinImageBytes == 1000
ValidImageAny(size) == TRUE
ValidImage(size) == size >= MinImageBytes

\* maxAttempts of the poll loops
MaxAttemptsOneMore(p) == 36
MaxAttempts(p) ==
  CASE p = "meshy" -> 35 [] p = "rodin" -> 25 [] p = "csm" -> 20 [] OTHER -> 0

\* MODELS of huggingFaceService.ts:8-13, tried in this order
MODELS == <<"VAST-AI/TripoSG", "stabilityai/TripoSR", "ashawkey/LGM",
            "Intel/dpt-hybrid-midas">>

Min(a, b) == IF a <= b THEN a ELSE b

\* waitTime of the poll loops, from attempts
WaitTimeFlat(p, n) == 3000
WaitTime(p, n) ==
  CASE p = "meshy" -> Min(2000 + n * 300, 5000)
    [] p = "rodin" -> Min(3000 + n * 500, 5000)
    [] p = "csm"   -> Min(3000 + n * 500, 6000)
    [] OTHER       -> 0

\* what a catch block of an adapter makes of the error: return null
CatchRethrows == "rejected"
Catch == "null"

\* a request goes out to the provider service
Send(c) == [c EXCEPT !.requests = @ + 1,
                     !.after401 = IF c.saw401 THEN @ + 1 ELSE @]

\* the call returns r
Return(c, r) == [c EXCEPT !.pc = "done", !.result = r]

\* an await of the call throws (network error, abort, body that cannot be
\* read): the catch blocks of the three job adapters return null
Throw(c) == Return([c EXCEPT !.threw = TRUE], Catch)

\* huggingFaceService.ts:30: the next model of MODELS, its image fetch
\* first; "return null" of line 132 after the last one
NextModelGivesUp(c) ==
  IF c.modelIndex = 0 THEN [c EXCEPT !.modelIndex = 1, !.pc = "image"]
  ELSE Return(c, "null")
NextModel(c) ==
  IF c.modelIndex < Len(MODELS)
  THEN [c EXCEPT !.modelIndex = @ + 1, !.pc = "image"]
  ELSE Return(c, "null")

\* the head of the poll loop: while (attempts < maxAttempts), the wait,
\* then the status request; past the loop "timed out", return null
PollLoop(c) ==
  IF c.attempts < MaxAttempts(c.adapter)
  THEN Send([c EXCEPT !.pc = "poll", !.polls = @ + 1,
                      !.waitTime = WaitTime(c.adapter, c.attempts)])
  ELSE Return(c, "null")

\* fetch(modelUrl)
StartDownload(c) == Send([c EXCEPT !.pc = "download"])

AdapterTypeOK ==
  /\ call.adapter \in RemoteApis
  /\ call.pc \in {"start", "image", "submit", "poll", "download", "done"}
  /\ call.apiKey \in BOOLEAN /\ call.blob \in BOOLEAN
  /\ call.imageSize \in ImageSizes
  /\ call.modelIndex \in 0 .. Len(MODELS)
  /\ call.attempts \in 0 .. 35 /\ call.polls \in 0 .. 35
  /\ call.waitTime \in 0 .. 6000
  /\ call.requests \in 0 .. 40 /\ call.after401 \in 0 .. 40
  /\ call.saw401 \in BOOLEAN /\ call.threw \in BOOLEAN
  /\ call.byteLength \in Downloads \cup {NoDownload}
  /\ call.result \in {"pending", "data", "null", "rejected"}

\* the hooks pass apiKeys[provider] (only generateMeshyModel takes a key)
AdapterInit ==
  /\ MainInit /\ asset = NoAsset /\ gen = NoGen /\ plane = NoPlane /\ manager = NoManager
  /\ \E p \in RemoteApis, size \in ImageSizes :
       call = [NoCall EXCEPT !.adapter = p, !.pc = "start",
                             !.apiKey = (p \in apiKeys), !.imageSize = size]

\* the call starts: generateMeshyModel returns null without a key
\* (meshyAiService.ts:18-22); the others go to fetch(imageUrl)
Begin ==
  /\ call.pc = "start"
  /\ call' = IF call.adapter = "meshy" /\ ~call.apiKey
             THEN Return(call, "null")
             ELSE IF call.adapter = "huggingface" THEN NextModel(call)
             ELSE [call EXCEPT !.pc = "image"]
  /\ UNCHANGED <<mainVars, asset, gen, plane, manager>>

\* fetch(imageUrl) and imageResponse.blob() settle, then the size check and
\* the POST (meshyAiService.ts:30-69, huggingFaceService.ts:38-82)
ImageSettles(out) ==
  /\ call.pc = "image"
  /\ call' =
       IF call.adapter = "huggingface"
       THEN IF out = "throws" THEN NextModel([call EXCEPT !.threw = TRUE])
            ELSE IF out = "notok" THEN NextModel(call)
            ELSE IF ~ValidImage(call.imageSize)
            THEN NextModel([call EXCEPT !.blob = TRUE])
            ELSE Send([call EXCEPT !.blob = TRUE, !.pc = "submit"])
       ELSE IF out = "throws" THEN Throw(call)
            ELSE IF out = "notok" THEN Return(call, "null")
            ELSE IF ~ValidImage(call.imageSize)
            THEN Return([call EXCEPT !.blob = TRUE], "null")
            ELSE Send([call EXCEPT !.blob = TRUE, !.pc = "submit"])
  /\ UNCHANGED <<mainVars, asset, gen, plane, manager>>

\* responses to the POST: a status that is not OK (401, 503, another one),
\* a rejected fetch or an unreadable body ("throws"), or an OK body
SubmitResponses ==
  {"401", "503", "500", "throws", "job", "nojob", "processing", "output_url",
   "unexpected", "model"}

\* the bodies an OK response of the adapter's service can have
Bodies(p) ==
  CASE p \in {"meshy", "rodin"} -> {"job", "nojob"}
    [] p = "csm" -> {"processing", "output_url", "unexpected"}
    [] OTHER -> {"model"}

\* the POST settles: meshyAiService.ts:71-105, rodinService.ts:176-197,
\* csmService.ts:161-175 and 247-282, huggingFaceService.ts:84-119
SubmitSettles(resp, byteLength) ==
  /\ call.pc = "submit"
  /\ resp \in {"401", "503", "500", "throws"} \cup Bodies(call.adapter)
  /\ resp = "model" \/ byteLength = NoDownload
  /\ resp = "model" => byteLength # NoDownload
  /\ LET c == [call EXCEPT !.saw401 = @ \/ resp = "401"]
     IN  call' =
           IF call.adapter = "huggingface"
           THEN IF resp = "throws" THEN NextModel([c EXCEPT !.threw = TRUE])
                ELSE IF resp # "model" THEN NextModel(c)
                ELSE IF ~ValidModel(byteLength)
                THEN NextModel([c EXCEPT !.byteLength = byteLength])
                ELSE Return([c EXCEPT !.byteLength = byteLength], "data")
           ELSE IF resp = "throws" THEN Throw(c)
                ELSE IF resp \in {"401", "503", "500"} THEN Return(c, "null")
                ELSE IF resp \in {"nojob", "unexpected"} THEN Return(c, "null")
                ELSE IF resp = "output_url" THEN StartDownload(c)
                ELSE PollLoop(c)
  /\ UNCHANGED <<mainVars, asset, gen, plane, manager>>

PollResponses ==
  {"401", "500", "throws", "pending", "completed", "completedNoUrl", "failed"}

\* a status request settles: meshyAiService.ts:122-153,
\* rodinService.ts:210-244, csmService.ts:192-240
PollSettles(resp) ==
  /\ call.pc = "poll"
  /\ LET c == [call EXCEPT !.saw401 = @ \/ resp = "401"]
     IN  call' =
           IF resp = "throws" THEN Throw(c)
           ELSE IF resp \in {"401", "500"}
           THEN PollLoop([c EXCEPT !.attempts = @ + 1])
           ELSE IF resp = "completed" THEN StartDownload(c)
           ELSE IF resp = "failed" THEN Return(c, "null")
           ELSE PollLoop([c EXCEPT !.attempts = @ + 1])
  /\ UNCHANGED <<mainVars, asset, gen, plane, manager>>

\* fetch(modelUrl) and arrayBuffer() settle: meshyAiService.ts:163-191,
\* rodinService.ts:255-281, csmService.ts:204-230 and 249-275
DownloadSettles(out, byteLength) ==
  /\ call.pc = "download"
  /\ out = "ok" \/ byteLength = NoDownload
  /\ out = "ok" => byteLength # NoDownload
  /\ call' =
       IF out = "throws" THEN Throw(call)
       ELSE IF out = "notok" THEN Return(call, "null")
       ELSE IF ~ValidModel(byteLength)
       THEN Return([call EXCEPT !.byteLength = byteLength], "null")
       ELSE Return([call EXCEPT !.byteLength = byteLength], "data")
  /\ UNCHANGED <<mainVars, asset, gen, plane, manager>>

AdapterNext ==
  \/ Begin
  \/ \E out \in {"ok", "notok", "throws"} : ImageSettles(out)
  \/ \E resp \in SubmitResponses, b \in Downloads \cup {NoDownload} :
       SubmitSettles(resp, b)
  \/ \E resp \in PollResponses : PollSettles(resp)
  \/ \E out \in {"ok", "notok", "throws"}, b \in Downloads \cup {NoDownload} :
       DownloadSettles(out, b)

AdapterSpec == AdapterInit /\ [][AdapterNext]_vars

\* C12: with an image blob of fewer than 1000 bytes no adapter sends a
\* request to its provider service (no POST, no status request, no model
\* download) and no adapter returns data: the call ends with null.
C12_SmallImageNoRequest ==
  call.imageSize < 1000 =>
    /\ call.requests = 0
    /\ call.pc \notin {"submit", "poll", "download"}
    /\ call.result # "data"
    /\ call.pc = "done" => call.result = "null"

\* the blob was read, the size check has sent the call back with null
C12_Witness ==
  /\ call.imageSize < 1000 /\ call.blob
  /\ call.pc = "done" /\ call.result = "null" /\ call.requests = 0

\* C13: after a 401 response to the POST or to a status request the adapter
\* sends no further request to that provider and the call ends with null.
C13_No401Retry ==
  /\ call.after401 = 0
  /\ (call.saw401 /\ call.pc = "done") => call.result = "null"

\* C14: a call of an adapter never ends in a rejected promise: whatever the
\* requests do (rejected fetch, status that is not OK, failed job, missing
\* job id, undersized model), it returns data or null.
C14_NeverRejects ==
  /\ call.result # "rejected"
  /\ call.pc = "done" => call.result \in {"data", "null"}

\* an await threw and the call has returned null
C14_Witness ==
  call.pc = "done" /\ call.threw /\ call.result = "null"

\* C18: the wait before a status request, n requests having been made in the
\* call, is min(2000 + 300 n, 5000) ms for Meshy, min(3000 + 500 n, 5000) ms
\* for Rodin and min(3000 + 500 n, 6000) ms for CSM; it never decreases from
\* one status request of a call to the next and never exceeds the cap.
C18_DelayAt(p, n) ==
  IF p = "meshy" THEN Min(2000 + 300 * n, 5000)
  ELSE IF p = "rodin" THEN Min(3000 + 500 * n, 5000)
  ELSE Min(3000 + 500 * n, 6000)

C18_PollDelay ==
  /\ [](call.pc = "poll" =>
          /\ call.waitTime = C18_DelayAt(call.adapter, call.polls - 1)
          /\ call.waitTime <= IF call.adapter = "csm" THEN 6000 ELSE 5000)
  /\ [][(call.pc = "poll" /\ call'.pc = "poll")
          => call'.waitTime >= call.waitTime]_vars

\* a status request whose wait was cut to the cap, after one with a shorter wait
C18_Witness ==
  /\ call.pc = "poll" /\ call.polls >= 2
  /\ call.waitTime = (IF call.adapter = "csm" THEN 6000 ELSE 5000)
  /\ C18_DelayAt(call.adapter, call.polls - 2) < call.waitTime

\* C15: no step starts a generate call of a provider's hook while an
\* earlier generate call of the same hook is still in flight, and no step
\* starts a hook run for a provider whose attempt has ended in this session.
C15_Ended == {"succeeded", "failed", "timedOut", "abandoned"}

C15_NoConcurrentCall ==
  [][/\ ~(/\ live.phase = "generating"
          /\ live'.phase = "generating" /\ live'.api = live.api
          /\ stale'[live.api] = stale[live.api] + 1)
     /\ \A i \in Indexes :
          (imageUrl' = imageUrl /\ attempts[i] \in C15_Ended
             /\ live.api # ApiAt(i))
            => live'.api # ApiAt(i)]_vars

(* ------------------------------ termination --------------------------- *)

\* One session: a single image is uploaded.  Every request settles with one
\* of its outcomes, the timers fire, the effects run after their render.
\* A settling callback and a timer wait in the model only for the effect of
\* the last render and for room within the bounds, which is why their
\* fairness is strong.
SessionNext ==
  \/ SceneReady
  \/ imageUrl = 0 /\ NewImage
  \/ UpdateKeys
  \/ ProcessNextApi
  \/ TimerFire
  \/ \E p \in RemoteApis, m \in BOOLEAN, b \in Downloads \cup {NoDownload} :
        GenerateSettles(p, m, b)
  \/ \E p \in RemoteApis, m \in BOOLEAN, ok \in BOOLEAN : GltfSettles(p, m, ok)
  \/ \E o \in Outcomes : LocalLoadSettles(o)
  \/ \E o \in Outcomes : TextureSettles(o)
  \/ HandleCancel

SessionSpec ==
  /\ Init /\ [][SessionNext]_vars
  /\ WF_vars(ProcessNextApi)
  /\ SF_vars(TimerFire)
  /\ SF_vars(\E p \in RemoteApis, m \in BOOLEAN, b \in Downloads \cup {NoDownload} :
               GenerateSettles(p, m, b))
  /\ SF_vars(\E p \in RemoteApis, m \in BOOLEAN, ok \in BOOLEAN : GltfSettles(p, m, ok))
  /\ SF_vars(\E o \in Outcomes : LocalLoadSettles(o))
  /\ SF_vars(\E o \in Outcomes : TextureSettles(o))

\* C16: a session with a scene reaches a state in which isLoading is false
\* and either a model is installed with its source tag or the index is past
\* the last provider and the aggregate failure was reported.
C16_Installed == model # "none" /\ modelSource = model /\ modelGenerationStatus = model
C16_Exhausted == currentApiIndex >= NumApis /\ failureToast

C16_SessionEnds ==
  (imageUrl = 1 /\ scene) ~> (~isLoading /\ (C16_Installed \/ C16_Exhausted))

C16_Witness ==
  /\ imageUrl = 1 /\ ~isLoading /\ C16_Exhausted /\ ~C16_Installed
  /\ \A i \in Indexes : attempts[i] \in {"skipped", "failed", "timedOut"}

\* C17: every way a GLTF load of a hook run can end releases the blob URL
\* the run created for the downloaded model: the callback that ends the
\* load, mounted or not, load or error, revokes the URL exactly once.
C17_BlobUrlRevokedOnce == revokes \in {NoGltf, 1}

(* --------------------- normalization of a loaded model ---------------- *)

\* The scale-and-center step of the load callback of the provider hooks,
\* useMeshyAiModel.ts:84-101, applied to a GLTF scene whose geometry is a
\* box: size and center are those of the box in the scene's own frame,
\* scale, position and rotation.y are the transform of the scene.  Lengths
\* and the scale are in thousandths.
Unit == 1000
\* const scale = 2.5 / maxDim
TargetSize == 2500
\* cos and sin of Math.PI / 8, the rotation.y the step leaves behind
Cos8 == 924
Sin8 == 383

MaxPasses == 3
AssetSizes == {1000, 2500, 4000}
AssetCenters == {0, 500}

Max3(v) == IF v[1] >= v[2] /\ v[1] >= v[3] THEN v[1]
           ELSE IF v[2] >= v[3] THEN v[2] ELSE v[3]

\* the box turned by rotation.y: its extent and its center along the axes
Extent(a) ==
  IF a.rotated
  THEN <<(Cos8 * a.size[1] + Sin8 * a.size[3]) \div Unit, a.size[2],
         (Sin8 * a.size[1] + Cos8 * a.size[3]) \div Unit>>
  ELSE a.size
Turned(a) ==
  IF a.rotated
  THEN <<(Cos8 * a.center[1] + Sin8 * a.center[3]) \div Unit, a.center[2],
         (Cos8 * a.center[3] - Sin8 * a.center[1]) \div Unit>>
  ELSE a.center

\* new THREE.Box3().setFromObject(model): getSize and getCenter
BoxSize(a) == [i \in 1 .. 3 |-> (a.scale * Extent(a)[i]) \div Unit]
BoxCenter(a) == [i \in 1 .. 3 |-> a.position[i] + (a.scale * Turned(a)[i]) \div Unit]

\* model.scale.set(scale, scale, scale) with scale = 2.5 / maxDim
ScaleSet(a, maxDim) == (TargetSize * Unit) \div maxDim

\* lines 84-101: scale from the box, the box again, position = -center,
\* rotation.y = Math.PI / 8
Normalize(a) ==
  LET maxDim == Max3(BoxSize(a))
      scaled == IF maxDim > 0 THEN [a EXCEPT !.scale = ScaleSet(a, maxDim)] ELSE a
      c == BoxCenter(scaled)
  IN  [scaled EXCEPT !.position = <<0 - c[1], 0 - c[2], 0 - c[3]>>,
                     !.rotated = TRUE]

\* gltf.scene as GLTFLoader hands it over: scale 1, position 0, no rotation
NormalizeInit ==
  /\ MainInit /\ call = NoCall /\ gen = NoGen /\ plane = NoPlane /\ manager = NoManager
  /\ \E sx \in AssetSizes, sy \in AssetSizes, sz \in AssetSizes,
        cx \in AssetCenters, cy \in AssetCenters :
       asset = [size |-> <<sx, sy, sz>>, center |-> <<cx, cy, 0>>,
                scale |-> Unit, position |-> <<0, 0, 0>>, rotated |-> FALSE,
                passes |-> 0]

\* the step is applied to the scene
NormalizePass ==
  /\ asset.passes < MaxPasses
  /\ asset' = [Normalize(asset) EXCEPT !.passes = @ + 1]
  /\ UNCHANGED <<mainVars, call, gen, plane, manager>>

NormalizeNext == NormalizePass

NormalizeSpec == NormalizeInit /\ [][NormalizeNext]_vars

\* C19: the step applied to a scene that is normalized (the center of its
\* box at the origin, the largest dimension of the box 2.5, to a hundredth
\* of a unit) leaves the scale and the position as they are, and the scene
\* is normalized after it.
C19_Close(x, y) == x - y <= 10 /\ y - x <= 10
C19_Normalized(a) ==
  /\ \A i \in 1 .. 3 : C19_Close(BoxCenter(a)[i], 0)
  /\ C19_Close(Max3(BoxSize(a)), 2500)

C19_NormalizeIdempotent ==
  [][(C19_Normalized(asset) /\ asset'.passes = asset.passes + 1)
       => /\ C19_Close(asset'.scale, asset.scale)
          /\ \A i \in 1 .. 3 : C19_Close(asset'.position[i], asset.position[i])
          /\ C19_Normalized(asset')]_vars

(***************************************************************************)
(* Local reconstruction: the Enhanced3DGenerator instance of ModelLoader   *)
(* (ModelLoader.tsx:30) and its two calls per image, createAdvancedMaps    *)
(* and applyAdvancedDisplacement (ModelLoader.tsx:174-180).  A bitmap is a *)
(* sequence of pixels <<r, g, b, a>> in row order.  The arithmetic of the  *)
(* source is in floating point; here luminances are in thousandths and     *)
(* the value stored in a byte is the integer part.  A read outside a typed *)
(* array gives undefined, which the arithmetic turns into NaN.             *)
(***************************************************************************)
Segments == 4       \* segments of the plane per side (the code has 128)
MaxRuns == 4        \* images handed to one generator
NaN == -1
Transparent == <<0, 0, 0, 0>>

\* texture.image of the textures the loader hands over
Images ==
  << [width |-> 3, height |-> 3,
      data |-> << <<255, 0, 0, 255>>,     <<0, 255, 0, 255>>,     <<0, 0, 255, 255>>,
                  <<255, 255, 255, 255>>, <<128, 128, 128, 255>>, <<0, 0, 0, 255>>,
                  <<200, 100, 50, 255>>,  <<10, 20, 30, 255>>,    <<90, 180, 60, 255>> >>],
     [width |-> 3, height |-> 3,
      data |-> << <<255, 255, 255, 128>>, <<0, 0, 0, 0>>,         <<40, 80, 120, 255>>,
                  <<250, 10, 10, 64>>,    <<100, 100, 100, 128>>, <<0, 0, 0, 255>>,
                  <<30, 60, 200, 200>>,   <<255, 255, 0, 255>>,   <<5, 5, 5, 32>> >>],
     [width |-> 2, height |-> 2,
      data |-> << <<255, 128, 0, 255>>,   <<0, 64, 255, 255>>,
                  <<20, 20, 20, 255>>,    <<240, 240, 240, 128>> >>],
     [width |-> 3, height |-> 3,
      data |-> << <<0, 0, 0, 255>>,       <<255, 255, 255, 255>>, <<0, 0, 0, 255>>,
                  <<255, 255, 255, 255>>, <<0, 0, 0, 255>>,       <<255, 255, 255, 255>>,
                  <<0, 0, 0, 255>>,       <<255, 255, 255, 255>>, <<0, 0, 0, 255>> >>] >>
ImageIds == 1 .. Len(Images)

Blank(width, height) == [k \in 1 .. width * height |-> Transparent]

\* document.createElement('canvas'): 300 x 150, transparent (pixels beyond
\* the end of data are transparent)
NewCanvas == [width |-> 300, height |-> 150, data |-> <<>>]
PixelAt(canvas, k) ==
  IF k \in DOMAIN canvas.data THEN canvas.data[k] ELSE Transparent

\* a canvas that kept its bitmap when given the size it already has
SetSizeKeeps(canvas, width, height) ==
  IF canvas.width = width /\ canvas.height = height
  THEN canvas
  ELSE [width |-> width, height |-> height, data |-> Blank(width, height)]

\* canvas.width = ...; canvas.height = ...: the bitmap is cleared
SetSize(canvas, width, height) ==
  [width |-> width, height |-> height, data |-> Blank(width, height)]

\* source-over compositing of pixel s onto pixel d
Over(s, d) ==
  LET rest == 255 - s[4]
      a == s[4] + (d[4] * rest) \div 255
      Chan(i) == IF a = 0 THEN 0
                 ELSE (s[i] * s[4] + (d[i] * d[4] * rest) \div 255) \div a
  IN  <<Chan(1), Chan(2), Chan(3), a>>

\* context.drawImage(image, 0, 0)
DrawImage(canvas, image) ==
  [canvas EXCEPT !.data =
     [k \in 1 .. canvas.width * canvas.height |->
        LET x == (k - 1) % canvas.width
            y == (k - 1) \div canvas.width
        IN  IF x < image.width /\ y < image.height
            THEN Over(PixelAt(image, y * image.width + x + 1), PixelAt(canvas, k))
            ELSE PixelAt(canvas, k)]]

\* context.getImageData(0, 0, width, height).data
GetImageData(canvas, width, height) ==
  [k \in 1 .. width * height |->
     LET x == (k - 1) % width
         y == (k - 1) \div width
     IN  IF x < canvas.width /\ y < canvas.height
         THEN PixelAt(canvas, y * canvas.width + x + 1)
         ELSE Transparent]

\* a * b as <<high, low>> in base 4096 (the products exceed 32 bits)
Prod(a, b) ==
  LET low == (a % 4096) * b
  IN  <<(a \div 4096) * b + low \div 4096, low % 4096>>
Leq(p, q) == p[1] < q[1] \/ (p[1] = q[1] /\ p[2] <= q[2])

\* 0.299 r + 0.587 g + 0.114 b, in thousandths
Luminance(p) == 299 * p[1] + 587 * p[2] + 114 * p[3]
MaxRGB(p) == Max3(p)
MinRGB(p) == IF p[1] <= p[2] /\ p[1] <= p[3] THEN p[1]
             ELSE IF p[2] <= p[3] THEN p[2] ELSE p[3]
Abs(n) == IF n < 0 THEN 0 - n ELSE n
NonNeg(n) == IF n < 0 THEN 0 ELSE n
Clamp(n) == IF n < 0 THEN 0 ELSE IF n > 255 THEN 255 ELSE n

\* Math.pow(height / 255, 0.8) * 255: the n with n^5 <= 255 height^4 < (n+1)^5
Pow08(height) ==
  LET bound == Prod(255 * height * height, height * height)
      Below(n) == Leq(Prod(n * n * n, n * n), bound)
  IN  CHOOSE n \in 0 .. 255 : Below(n) /\ (n = 255 \/ ~Below(n + 1))

\* Math.sqrt on 0 .. 255^2
Sqrt(n) == CHOOSE r \in 0 .. 255 : r * r <= n /\ (r + 1) * (r + 1) > n

createHeightMap(data) ==
  [k \in DOMAIN data |->
     LET saturation == MaxRGB(data[k]) - MinRGB(data[k])
         height == (7 * Luminance(data[k]) + 3000 * saturation) \div 10000
         h == Pow08(height)
     IN  <<h, h, h, 255>>]

\* the luminance of the pixel at (x, y)
LuminanceAt(data, width, x, y) == Luminance(data[y * width + x + 1])
Interior(k, width, height) ==
  LET x == (k - 1) % width
      y == (k - 1) \div width
  IN  x >= 1 /\ x < width - 1 /\ y >= 1 /\ y < height - 1

createEnhancedNormalMap(data, width, height) ==
  [k \in 1 .. width * height |->
     IF Interior(k, width, height)
     THEN LET x == (k - 1) % width
              y == (k - 1) \div width
              L(dx, dy) == LuminanceAt(data, width, x + dx, y + dy)
              sobelX == (L(1, -1) + 2 * L(1, 0) + L(1, 1))
                          - (L(-1, -1) + 2 * L(-1, 0) + L(-1, 1))
              sobelY == (L(-1, 1) + 2 * L(0, 1) + L(1, 1))
                          - (L(-1, -1) + 2 * L(0, -1) + L(1, -1))
              sx == sobelX \div 1000
              sy == sobelY \div 1000
              nz == Sqrt(NonNeg(65025 - 16 * (sx * sx + sy * sy)))
          IN  <<Clamp((2 * sobelX + 127500) \div 1000),
                Clamp((2 * sobelY + 127500) \div 1000),
                nz, 255>>
     ELSE Transparent]

createEdgeMap(data, width, height) ==
  [k \in 1 .. width * height |->
     IF Interior(k, width, height)
     THEN LET x == (k - 1) % width
              y == (k - 1) \div width
              L(dx, dy) == LuminanceAt(data, width, x + dx, y + dy)
              edge == Abs(4 * L(0, 0) - L(0, -1) - L(0, 1) - L(-1, 0) - L(1, 0))
              normalizedEdge == Min(255, edge \div 1000)
          IN  <<normalizedEdge, normalizedEdge, normalizedEdge, 255>>
     ELSE Transparent]

createSimulatedDepthMap(data) ==
  [k \in DOMAIN data |->
     LET p == data[k]
         contrast == MaxRGB(p) - MinRGB(p)
         depth == (4 * Luminance(p)) \div 10 + 150 * (p[1] - p[3]) + 38250
                    + 300 * contrast
         d == Clamp(depth \div 1000)
     IN  <<d, d, d, 255>>]

\* a CanvasTexture on a new canvas that received the data by putImageData
dataToTexture(data, width, height) ==
  [width |-> width, height |-> height, data |-> data]

\* the channel read at data[idx], undefined outside the array
sampleTexture(data, uNum, vNum, den, width, height) ==
  LET x == (uNum * width) \div den
      y == (vNum * height) \div den
      idx == y * width + x
  IN  IF idx >= 0 /\ idx < width * height THEN data[idx + 1][1] ELSE NaN

\* Math.pow(totalDisplacement, 1.2) * 2.0 in thousandths, where
\* totalDisplacement = (5 heightValue + 2 edgeValue) / 2550 and its fifth
\* root is taken in sixtieths
FinalHeight(heightValue, edgeValue) ==
  IF heightValue = NaN \/ edgeValue = NaN THEN NaN
  ELSE LET total == 5 * heightValue + 2 * edgeValue
           bound == Prod(60 * 60 * 60 * 60 * 60, total)
           Below(r) == Leq(Prod(r * r * r * r * r, 2550), bound)
           root == CHOOSE r \in 0 .. 60 : Below(r) /\ (r = 60 \/ ~Below(r + 1))
       IN  (2000 * total * root) \div (2550 * 60)

\* the bitmap a new canvas of the map's size has after drawImage(map.image)
MapData(map) ==
  GetImageData(DrawImage(SetSize(NewCanvas, map.width, map.height), map),
               map.width, map.height)

\* z of the vertices of PlaneGeometry(4, 4, Segments, Segments), row by row
\* from y = 2 down: x = -2 + 4 ix / Segments, y = 2 - 4 iy / Segments,
\* u = (x + 1) / 2, v = (y + 1) / 2
Displace(maps) ==
  LET heightData == MapData(maps.heightMap)
      edgeData == MapData(maps.edgeMap)
      side == Segments + 1
  IN  [i \in 1 .. side * side |->
         LET ix == (i - 1) % side
             iy == (i - 1) \div side
             uNum == 4 * ix - Segments
             vNum == 3 * Segments - 4 * iy
             den == 2 * Segments
         IN  FinalHeight(
               sampleTexture(heightData, uNum, vNum, den,
                             maps.heightMap.width, maps.heightMap.height),
               sampleTexture(edgeData, uNum, vNum, den,
                             maps.edgeMap.width, maps.edgeMap.height))]

NoMaps == [heightMap |-> 0]

\* new Enhanced3DGenerator(): one canvas, nothing processed
ReconstructionInit ==
  /\ MainInit /\ call = NoCall /\ asset = NoAsset /\ plane = NoPlane /\ manager = NoManager
  /\ gen = [pc |-> "idle", image |-> 0, canvas |-> NewCanvas, maps |-> NoMaps,
            positions |-> <<>>, log |-> <<>>,
            results |-> [i \in ImageIds |-> {}]]

\* createAdvancedMaps(texture) for the texture of image i
createAdvancedMaps(i) ==
  /\ gen.pc = "idle"
  /\ Len(gen.log) < MaxRuns
  /\ LET image == Images[i]
         canvas == DrawImage(SetSize(gen.canvas, image.width, image.height), image)
         data == GetImageData(canvas, image.width, image.height)
     IN  gen' = [gen EXCEPT
                   !.pc = "mapped", !.image = i, !.canvas = canvas,
                   !.maps =
                     [heightMap |-> dataToTexture(createHeightMap(data),
                                                  image.width, image.height),
                      normalMap |-> dataToTexture(
                                      createEnhancedNormalMap(data, image.width, image.height),
                                      image.width, image.height),
                      edgeMap |-> dataToTexture(
                                    createEdgeMap(data, image.width, image.height),
                                    image.width, image.height),
                      depthMap |-> dataToTexture(createSimulatedDepthMap(data),
                                                 image.width, image.height)]]
  /\ UNCHANGED <<mainVars, call, asset, plane, manager>>

\* applyAdvancedDisplacement(new PlaneGeometry, maps)
applyAdvancedDisplacement ==
  /\ gen.pc = "mapped"
  /\ LET positions == Displace(gen.maps)
     IN  gen' = [gen EXCEPT
                   !.pc = "idle", !.positions = positions,
                   !.log = Append(@, gen.image),
                   !.results[gen.image] =
                      @ \cup {[maps |-> gen.maps, positions |-> positions]}]
  /\ UNCHANGED <<mainVars, call, asset, plane, manager>>

ReconstructionNext ==
  \/ \E i \in ImageIds : createAdvancedMaps(i)
  \/ applyAdvancedDisplacement

ReconstructionSpec == ReconstructionInit /\ [][ReconstructionNext]_vars

\* C20: whatever images the generator processed before, every run of
\* createAdvancedMaps and applyAdvancedDisplacement on the same image gives
\* the same height, normal, edge and depth maps and the same vertex positions
C20_Deterministic ==
  \A i \in ImageIds : Cardinality(gen.results[i]) <= 1

\* an image was processed, then a different one, then the first again
C20_Witness ==
  /\ gen.pc = "idle"
  /\ \E j \in DOMAIN gen.log, k \in DOMAIN gen.log :
       /\ j + 1 < k
       /\ gen.log[j] = gen.log[k]
       /\ gen.log[j + 1] # gen.log[j]
       /\ \E n \in DOMAIN Images[gen.log[j]].data :
            Images[gen.log[j]].data[n][4] \in 1 .. 254
       /\ \E n \in DOMAIN gen.positions : gen.positions[n] # NaN

(* ------------------- adapter calls: budget and order ------------------ *)

\* every request of the call gets a response (or fails): the call goes on
AdapterLiveSpec == AdapterSpec /\ WF_vars(AdapterNext)

\* C28: a call of a polling adapter makes at most 35 (Meshy), 25 (Rodin) or
\* 20 (CSM) status requests, those answered with a status that is not OK
\* included; when that many have been made without a completed status the
\* call returns null; and every call returns.
C28_Budget(p) ==
  IF p = "meshy" THEN 35 ELSE IF p = "rodin" THEN 25
  ELSE IF p = "csm" THEN 20 ELSE 0

C28_PollBudget ==
  /\ [](/\ call.polls <= C28_Budget(call.adapter)
        /\ call.attempts <= call.polls
        /\ (call.adapter # "huggingface" /\ call.attempts >= C28_Budget(call.adapter))
             => (call.pc = "done" /\ call.result = "null"))
  /\ [][(call.pc = "poll" /\ call'.pc = "poll")
          => (call'.polls = call.polls + 1 /\ call'.attempts = call.attempts + 1)]_vars
  /\ <>(call.pc = "done")

\* the budget was used up, one of the status requests was answered 401
C28_Witness ==
  /\ call.pc = "done" /\ call.result = "null" /\ call.saw401 /\ ~call.threw
  /\ call.polls = C28_Budget(call.adapter) /\ call.polls > 0
  /\ call.attempts = call.polls

\* C30: generate3DModelFromImage goes through MODELS in order, one model at
\* a time and one request per model at most; a response that is OK and of
\* at least 5000 bytes ends the call with that payload, no later model
\* being contacted; the call returns null only past the fourth model.
C30_ModelsInOrder ==
  /\ [](call.adapter = "huggingface" =>
          /\ call.requests <= call.modelIndex
          /\ call.pc = "submit" => call.modelIndex \in 1 .. 4
          /\ (call.pc = "done" /\ call.result = "data")
               => (call.byteLength >= 5000 /\ call.modelIndex \in 1 .. 4)
          /\ (call.pc = "done" /\ call.result = "null") => call.modelIndex = 4
          /\ call.pc = "done" => call.result \in {"data", "null"})
  /\ [][call.adapter = "huggingface" =>
          /\ call'.modelIndex \in {call.modelIndex, call.modelIndex + 1}
          /\ call'.requests \in {call.requests, call.requests + 1}
          /\ call'.requests = call.requests + 1
               => (call.pc = "image" /\ call'.pc = "submit"
                   /\ call'.modelIndex = call.modelIndex)
          /\ (call.pc = "submit" /\ call'.byteLength # NoDownload
              /\ call'.byteLength >= 5000)
               => (call'.pc = "done" /\ call'.result = "data"
                   /\ call'.requests = call.requests)
          /\ call.pc = "done" => call' = call]_vars

\* the third model answered with a model after the first two had failed
C30_Witness ==
  /\ call.adapter = "huggingface" /\ call.pc = "done" /\ call.result = "data"
  /\ call.modelIndex = 3 /\ call.requests >= 2 /\ call.byteLength >= 5000

(* ---------------- local reconstruction: maps and sampling -------------- *)

\* the vertices on the border of the plane of Displace, by index
OnBorder(k) ==
  LET ix == (k - 1) % (Segments + 1)
      iy == (k - 1) \div (Segments + 1)
  IN  ix = 0 \/ ix = Segments \/ iy = 0 \/ iy = Segments

\* C21: after applyAdvancedDisplacement every vertex at normalized distance
\* 1 or more from the center of the plane, so every vertex on the border of
\* the grid, has displacement 0 (the falloff 1 - min(1, d^1.2) is 0 there).
C21_BorderFlat ==
  (gen.pc = "idle" /\ gen.image # 0) =>
     \A k \in DOMAIN gen.positions : OnBorder(k) => gen.positions[k] = 0

\* C23: the edge map holds, at every interior pixel, the Laplacian
\* 4 center - top - bottom - left - right of the luminance of the image
\* data, cut to 0 .. 255: 0 when it is negative, 255 when it is above 255.
C23_Laplacian(data, width, k) ==
  LET x == (k - 1) % width
      y == (k - 1) \div width
  IN  4 * LuminanceAt(data, width, x, y)
        - LuminanceAt(data, width, x, y - 1) - LuminanceAt(data, width, x, y + 1)
        - LuminanceAt(data, width, x - 1, y) - LuminanceAt(data, width, x + 1, y)

C23_EdgeClamped ==
  gen.pc = "mapped" =>
    LET width == gen.canvas.width
        height == gen.canvas.height
        data == GetImageData(gen.canvas, width, height)
    IN  \A k \in 1 .. width * height :
          Interior(k, width, height) =>
            LET lap == C23_Laplacian(data, width, k)
            IN  gen.maps.edgeMap.data[k][1] =
                  (IF lap < 0 THEN 0
                   ELSE IF lap \div 1000 > 255 THEN 255 ELSE lap \div 1000)

\* C29: applyAdvancedDisplacement samples the maps inside their bounds for
\* every vertex of the plane: the pixel coordinates computed from u and v
\* satisfy 0 <= x < width and 0 <= y < height, and no vertex gets its z from
\* a read outside the image data.
C29_SampledInside ==
  (gen.pc = "idle" /\ gen.image # 0) =>
     LET width == gen.maps.heightMap.width
         height == gen.maps.heightMap.height
     IN  \A k \in DOMAIN gen.positions :
           LET ix == (k - 1) % (Segments + 1)
               iy == (k - 1) \div (Segments + 1)
               x == ((4 * ix - Segments) * width) \div (2 * Segments)
               y == ((3 * Segments - 4 * iy) * height) \div (2 * Segments)
           IN  /\ 0 <= x /\ x < width
               /\ 0 <= y /\ y < height
               /\ gen.positions[k] # NaN

(***************************************************************************)
(* createImagePlane (unnamed/part_014): a plane from createDetailedGeometry,*)
(* displaced by applyAdvancedDisplacementToGeometry (unnamed/part_013) and  *)
(* smoothed by smoothGeometry (geometryUtils.ts).  The displacement map is  *)
(* an opaque grey image of the size of the texture; lengths, displacements  *)
(* and the falloff are in thousandths.                                      *)
(***************************************************************************)
PlaneSegments == 4        \* widthSegments (the code has 256)
Greys == {0, 128, 255}
MapShapes == {<<3, 3>>, <<4, 2>>}

\* Math.floor(widthSegments / aspectRatio)
HeightSegments(map) == (PlaneSegments * map.height) \div map.width

\* new THREE.PlaneGeometry(3, 3 / aspectRatio, widthSegments, heightSegments):
\* the positions <<x, y, z>> row by row from the top, z = 0
createDetailedGeometry(map) ==
  LET ws == PlaneSegments
      hs == HeightSegments(map)
      height == (3000 * map.height) \div map.width
  IN  [k \in 1 .. (ws + 1) * (hs + 1) |->
         LET ix == (k - 1) % (ws + 1)
             iy == (k - 1) \div (ws + 1)
         IN  <<(3000 * ix) \div ws - 1500,
               height \div 2 - (height * iy) \div hs, 0>>]

\* imageData[index] for the uv of vertex (ix, iy): u = ix / ws, v = 1 - iy / hs
sampleDisplacement(map, ix, iy, ws, hs) ==
  LET x == (ix * (map.width - 1)) \div ws
      y == (iy * (map.height - 1)) \div hs
  IN  map.data[y * map.width + x + 1][1]

\* Math.pow(displacement, 1.5) with displacement = value / 255
AdjustedDisplacement(value) == (1000 * value * Sqrt(255 * value)) \div (255 * 255)

\* 1 - Math.min(1, Math.pow(distFromCenter, 1.2)); the square of the
\* distance is num / den and its fifth root is taken in sixtieths
Falloff(ix, iy, ws, hs) ==
  LET a == 2 * ix - ws
      b == hs - 2 * iy
      num == a * a * hs * hs + b * b * ws * ws
      den == ws * ws * hs * hs
      bound == Prod(60 * 60 * 60 * 60 * 60, num)
      Below(r) == Leq(Prod(r * r * r * r * r, den), bound)
      root == CHOOSE r \in 0 .. 69 : Below(r) /\ ~Below(r + 1)
  IN  1000 - Min(1000, (1000 * root * root * root) \div (60 * 60 * 60))

\* applyDisplacementToVertex for every vertex: z = adjusted * 0.8 * falloff
applyAdvancedDisplacementToGeometry(positions, map) ==
  LET ws == PlaneSegments
      hs == HeightSegments(map)
  IN  [k \in DOMAIN positions |->
         LET ix == (k - 1) % (ws + 1)
             iy == (k - 1) \div (ws + 1)
             adjusted == AdjustedDisplacement(sampleDisplacement(map, ix, iy, ws, hs))
         IN  <<positions[k][1], positions[k][2],
               (adjusted * 8 * Falloff(ix, iy, ws, hs)) \div 10000>>]

\* "Skip edge vertices": i in 1 .. widthSegments - 1, j in 1 .. heightSegments - 1
Smoothed(k, ws, hs) ==
  LET i == (k - 1) % (ws + 1)
      j == (k - 1) \div (ws + 1)
  IN  i >= 1 /\ i < ws /\ j >= 1 /\ j < hs

\* the average a pass gives that writes into the positions it reads: with
\* i in the outer loop, the left and the upper neighbour are smoothed already
RECURSIVE avgZInPlace(_, _, _, _)
avgZInPlace(positions, k, ws, hs) ==
  LET Z(n) == IF Smoothed(n, ws, hs) THEN avgZInPlace(positions, n, ws, hs)
              ELSE positions[n][3]
  IN  (Z(k - 1) + positions[k + 1][3] + Z(k - (ws + 1))
         + positions[k + (ws + 1)][3] + positions[k][3]) \div 5

\* avgZ of the vertex, from originalPositions = positions.clone()
avgZ(originalPositions, k, ws, hs) ==
  (originalPositions[k - 1][3] + originalPositions[k + 1][3]
     + originalPositions[k - (ws + 1)][3] + originalPositions[k + (ws + 1)][3]
     + originalPositions[k][3]) \div 5

smoothGeometry(positions, ws, hs) ==
  [k \in DOMAIN positions |->
     IF Smoothed(k, ws, hs)
     THEN <<positions[k][1], positions[k][2], avgZ(positions, k, ws, hs)>>
     ELSE positions[k]]

\* the displacement map of a texture: createMapsFromTexture gives an opaque
\* grey image of the size of the texture
PlaneInit ==
  /\ MainInit /\ call = NoCall /\ asset = NoAsset /\ gen = NoGen /\ manager = NoManager
  /\ \E shape \in MapShapes, grey \in [1 .. 4 -> Greys] :
       plane = [pc |-> "texture",
                map |-> [width |-> shape[1], height |-> shape[2],
                         data |-> [k \in 1 .. shape[1] * shape[2] |->
                                     LET g == grey[((k + (k - 1) \div shape[1]) % 4) + 1]
                                     IN  <<g, g, g, 255>>]],
                positions |-> <<>>, displaced |-> <<>>, normalsOf |-> <<>>]

\* createImagePlane(scene, texture, ...): the geometry, the displacement with
\* its computeVertexNormals, then the smoothing; displaced and normalsOf
\* keep the positions before the smoothing and those the normals were
\* computed from
createImagePlane ==
  /\ plane.pc = "texture"
  /\ LET geometry == createDetailedGeometry(plane.map)
         displaced == applyAdvancedDisplacementToGeometry(geometry, plane.map)
     IN  plane' = [plane EXCEPT
                     !.pc = "model",
                     !.displaced = displaced,
                     !.normalsOf = displaced,
                     !.positions = smoothGeometry(displaced, PlaneSegments,
                                                  HeightSegments(plane.map))]
  /\ UNCHANGED <<mainVars, call, asset, gen, manager>>

PlaneNext == createImagePlane

PlaneSpec == PlaneInit /\ [][PlaneNext]_vars

\* C22: smoothGeometry changes nothing but the z of the interior vertices of
\* the grid, and the z it gives an interior vertex is the average of the z
\* the vertex and its four neighbours had before the pass.
C22_SmoothingPass ==
  plane.pc = "model" =>
    LET ws == PlaneSegments
        hs == HeightSegments(plane.map)
        row == ws + 1
        before == plane.displaced
        after == plane.positions
    IN  /\ DOMAIN after = DOMAIN before
        /\ \A k \in DOMAIN after :
             LET i == (k - 1) % row
                 j == (k - 1) \div row
             IN  /\ after[k][1] = before[k][1]
                 /\ after[k][2] = before[k][2]
                 /\ IF 0 < i /\ i < ws /\ 0 < j /\ j < hs
                    THEN after[k][3] =
                           (before[k - 1][3] + before[k + 1][3] + before[k - row][3]
                              + before[k + row][3] + before[k][3]) \div 5
                    ELSE after[k][3] = before[k][3]

\* two neighbouring interior vertices were both moved by the pass
C22_Witness ==
  /\ plane.pc = "model"
  /\ \E k \in DOMAIN plane.positions :
       /\ Smoothed(k, PlaneSegments, HeightSegments(plane.map))
       /\ Smoothed(k + 1, PlaneSegments, HeightSegments(plane.map))
       /\ plane.positions[k][3] # plane.displaced[k][3]
       /\ plane.positions[k + 1][3] # plane.displaced[k + 1][3]

\* C24: the vertex normals of the finished mesh are those of its final
\* positions: nothing moved a vertex after the last computeVertexNormals.
C24_NormalsOfFinalPositions ==
  plane.pc = "model" => plane.normalsOf = plane.positions

(* --------------------- sessions, keys and the index -------------------- *)

\* C25: a provider that needs a key and has none (meshy, rodin or csm) never
\* has a run of its hook with a generate call in flight, mounted or
\* unmounted: its generate function is not started.
C25_NoCallWithoutKey ==
  \A p \in KeyServices :
    p \notin apiKeys => (live.api # p /\ stale[p] = 0)

\* C26: a new image starts its session at index 0 (or past a provider at
\* index 0 that is skipped for its missing key in the same step), and the
\* callback of a timer or of a texture load left over from an earlier image
\* (a timer armed for a provider no attempt of which has begun in the
\* session of the new image, a texture load settling before the session has
\* reached the local provider) changes neither currentApiIndex nor
\* isProcessing.
C26_NewSessionUntouched ==
  /\ [][imageUrl' # imageUrl =>
          \/ currentApiIndex' = 0
          \/ currentApiIndex' = 1 /\ MissingKey(ApiAt(0), apiKeys)]_vars
  /\ [][(/\ imageUrl' = imageUrl
         /\ \/ /\ timers # <<>> /\ timers' = Tail(timers)
               /\ attempts[IndexOf(Head(timers))] = "pending"
            \/ /\ attempts[IndexOf("local")] = "pending"
               /\ \/ texLoads' = texLoads - 1
                  \/ localLoads' = localLoads - 1)
          => (currentApiIndex' = currentApiIndex /\ isProcessing' = isProcessing)]_vars

\* C27: in a session currentApiIndex is never above apiPriority.length and
\* changes only by one step up, which it takes when the attempt of the
\* provider at the index is skipped, has failed or has timed out.
C27_IndexSteps ==
  /\ [](currentApiIndex <= NumApis)
  /\ [][(imageUrl' = imageUrl /\ currentApiIndex' # currentApiIndex)
          => /\ currentApiIndex' = currentApiIndex + 1
             /\ currentApiIndex \in Indexes
             /\ attempts'[currentApiIndex] \in {"skipped", "failed", "timedOut"}
             /\ attempts[currentApiIndex] \in {"pending", "running"}]_vars

(***************************************************************************)
(* ApiKeyManager (utils/apiKeyManager.ts): the keys object of the one      *)
(* instance and the "api-keys" entry of localStorage it is saved to.  A    *)
(* string is the sequence of its characters, an object the sequence of    *)
(* its <<name, value>> properties in insertion order, a JSON text the      *)
(* sequence of its tokens.                                                 *)
(***************************************************************************)
\* the services whose keys are followed: two of the four of ApiKeys
Services == {"meshyAi", "csmAi"}
\* the key strings passed to setKey: empty, blank, plain, with a leading blank
KeyStrings == {<<>>, <<" ">>, <<"a">>, <<" ", "b">>}
\* the value of a property that does not exist
Undefined == <<"undefined">>
\* getItem returns null: there is no "api-keys" entry
NoEntry == <<>>

\* String.prototype.trim
RECURSIVE trimStart(_)
trimStart(str) ==
  IF str # <<>> /\ Head(str) = " " THEN trimStart(Tail(str)) ELSE str
RECURSIVE trimEnd(_)
trimEnd(str) ==
  IF str # <<>> /\ str[Len(str)] = " "
  THEN trimEnd(SubSeq(str, 1, Len(str) - 1))
  ELSE str
trim(str) == trimEnd(trimStart(str))

\* obj[name]
Get(obj, name) ==
  IF \E i \in DOMAIN obj : obj[i][1] = name
  THEN obj[CHOOSE i \in DOMAIN obj : obj[i][1] = name][2]
  ELSE Undefined
\* obj[name] = value: an existing property keeps its place, a new one is last
Put(obj, name, value) ==
  IF \E i \in DOMAIN obj : obj[i][1] = name
  THEN [i \in DOMAIN obj |-> IF obj[i][1] = name THEN <<name, value>> ELSE obj[i]]
  ELSE Append(obj, <<name, value>>)

\* JSON.stringify of an object whose values are strings: the members between
\* the braces
RECURSIVE Members(_)
Members(obj) ==
  IF obj = <<>> THEN <<>>
  ELSE <<"\"", Head(obj)[1], "\"", ":", "\"">> \o Head(obj)[2] \o <<"\"">>
       \o (IF Tail(obj) = <<>> THEN <<>> ELSE <<",">> \o Members(Tail(obj)))

\* JSON.parse of such a text: the member that starts at token i and those
\* after it
RECURSIVE ParseMembers(_, _)
ParseMembers(text, i) ==
  IF text[i] = "}" THEN <<>>
  ELSE LET close == CHOOSE j \in (i + 5) .. Len(text) :
                      /\ text[j] = "\""
                      /\ \A k \in (i + 5) .. (j - 1) : text[k] # "\""
           member == <<text[i + 1], SubSeq(text, i + 5, close - 1)>>
       IN  <<member>> \o
           ParseMembers(text, IF text[close + 1] = "," THEN close + 2 ELSE close + 1)

\* loadKeys: the stored entry parsed (its members start after the brace), the
\* empty object when there is none
loadKeys(stored) == IF stored # NoEntry THEN ParseMembers(stored, 2) ELSE <<>>

\* the entries localStorage can hold after saveKeys ran for keys: setItem
\* wrote the text, or it threw (the quota is exceeded, the storage is off),
\* which saveKeys catches with a toast
saveKeys(keys, stored) == {<<"{">> \o Members(keys) \o <<"}">>, stored}

getKey(service) == Get(manager.keys, service)
\* !!this.keys[service]?.trim()
hasKey(service) ==
  /\ getKey(service) # Undefined
  /\ trim(getKey(service)) # <<>>

\* the module is evaluated in a browser without an "api-keys" entry:
\* getInstance builds the instance, whose constructor calls loadKeys.
\* lastSet is history: for each service the value of the last setKey that no
\* clear followed
KeyManagerInit ==
  /\ MainInit /\ call = NoCall /\ asset = NoAsset /\ gen = NoGen /\ plane = NoPlane
  /\ manager = [pc |-> "ready", keys |-> loadKeys(NoEntry), stored |-> NoEntry,
                lastSet |-> [s \in Services |-> Undefined]]

setKey ==
  /\ manager.pc = "ready"
  /\ \E service \in Services, key \in KeyStrings :
       LET keys == Put(manager.keys, service, key)
       IN  \E stored \in saveKeys(keys, manager.stored) :
             manager' = [manager EXCEPT !.keys = keys, !.stored = stored,
                                        !.lastSet[service] = key]
  /\ UNCHANGED <<mainVars, call, asset, gen, plane>>

clearKey ==
  /\ manager.pc = "ready"
  /\ \E service \in Services :
       \* delete this.keys[service]
       LET keys == SelectSeq(manager.keys, LAMBDA e : e[1] # service)
       IN  \E stored \in saveKeys(keys, manager.stored) :
             manager' = [manager EXCEPT !.keys = keys, !.stored = stored,
                                        !.lastSet[service] = Undefined]
  /\ UNCHANGED <<mainVars, call, asset, gen, plane>>

clearAllKeys ==
  /\ manager.pc = "ready"
  /\ \E stored \in saveKeys(<<>>, manager.stored) :
       manager' = [manager EXCEPT !.keys = <<>>, !.stored = stored,
                                  !.lastSet = [s \in Services |-> Undefined]]
  /\ UNCHANGED <<mainVars, call, asset, gen, plane>>

\* the page is loaded again: a new instance is built from the stored entry
getInstance ==
  /\ manager.pc = "ready"
  /\ manager' = [manager EXCEPT !.keys = loadKeys(manager.stored)]
  /\ UNCHANGED <<mainVars, call, asset, gen, plane>>

KeyManagerSpec ==
  KeyManagerInit /\ [][setKey \/ clearKey \/ clearAllKeys \/ getInstance]_vars

\* C31: after any sequence of setKey, clearKey and clearAllKeys, getKey(s) is
\* the value of the last setKey(s) that no clear of s followed (undefined
\* without one), hasKey(s) is true exactly when that value has a character
\* that is not a blank, and the "api-keys" entry of localStorage holds the
\* same keys as the instance
C31_KeysAsLastSet ==
  manager.pc = "ready" =>
    /\ \A s \in Services :
         /\ getKey(s) = manager.lastSet[s]
         /\ hasKey(s) <=> /\ manager.lastSet[s] # Undefined
                          /\ \E i \in DOMAIN manager.lastSet[s] :
                               manager.lastSet[s][i] # " "
    /\ manager.stored # NoEntry =>
         LET entry == loadKeys(manager.stored)
         IN  /\ {entry[i][1] : i \in DOMAIN entry}
                  = {manager.keys[i][1] : i \in DOMAIN manager.keys}
             /\ \A s \in Services : Get(entry, s) = getKey(s)

=============================================================================
